---- MODULE Spec2Model ----
(***************************************************************************)
(* Model of the in-memory spreadsheet engine (class Spreadsheet): the      *)
(* committed map `cells`, the staging map `shadowCells`, and eval with     *)
(* its recursive evaluation, propagation, cycle check, rollback and commit.*)
(* Also the PATCH handler of the web service (ss-ws.ts) and the focus and  *)
(* blur listeners of the browser spreadsheet (prj4 spreadsheet.ts), each   *)
(* with a specification of its own.                                        *)
(***************************************************************************)
EXTENDS Integers, Sequences, FiniteSets, TLC

\* ------------------------------------------------------------------ bounds
NumCells == 3
MaxCalls == 3
MaxRequests == 2
MaxErrors == 3
NumGridCells == 2
MaxBlurs == 2

\* Cell ids: column k of row 1 ("a1", "b1", "c1", ...), as the column index.
Cells == 1..NumCells

\* ------------------------------------------------------------------- Ast
\* Ast nodes: kind "num" (value = the literal), kind "ref" (value = the
\* column offset of the referenced cell relative to the cell the formula
\* is embedded in), kind "app" (fn applied to the ordered kids).
NumAst(v) == [kind |-> "num", value |-> v, fn |-> "", kids |-> <<>>]
RefAst(off) == [kind |-> "ref", value |-> off, fn |-> "", kids |-> <<>>]
AppAst(f, ks) == [kind |-> "app", value |-> 0, fn |-> f, kids |-> ks]

\* Expression texts as the caller writes them: references are absolute.
NumE(v) == [t |-> "num", v |-> v, fn |-> "", kids |-> <<>>]
RefE(c) == [t |-> "ref", v |-> c, fn |-> "", kids |-> <<>>]
AppE(f, ks) == [t |-> "app", v |-> 0, fn |-> f, kids |-> ks]
BadE == [t |-> "bad", v |-> 0, fn |-> "", kids |-> <<>>]

\* The expression texts a call may carry: "1", "x+1" for every cell x,
\* "a1+b1", and a text that does not parse.
Exprs ==
  {NumE(1)}
  \cup {AppE("+", <<RefE(c), NumE(1)>>) : c \in Cells}
  \cup {AppE("+", <<RefE(1), RefE(2)>>)}
  \cup {BadE}

\* Expression texts over the whole operator table: every operator applied
\* to a cell and "2" ("x-2" and "2-x" both), and the one-operand "-x", "-2".
Ops == {"+", "-", "*", "min", "max"}
OpExprs ==
  {AppE(f, <<RefE(c), NumE(2)>>) : f \in Ops, c \in Cells}
  \cup {AppE("-", <<NumE(2), RefE(c)>>) : c \in Cells}
  \cup {AppE("-", <<RefE(c)>>) : c \in Cells}
  \cup {AppE("-", <<NumE(2)>>)}

RECURSIVE parseAst(_, _)
\* parse(expr, cellId) on a well-formed text: a reference is stored
\* relative to the cell the formula is parsed for.
parseAst(e, cellId) ==
  IF e.t = "num" THEN NumAst(e.v)
  ELSE IF e.t = "ref" THEN RefAst(e.v - cellId)
  ELSE AppAst(e.fn, [i \in 1..Len(e.kids) |-> parseAst(e.kids[i], cellId)])

\* parse(expr, cellId): a Result, not ok on a text that does not parse.
parse(e, cellId) ==
  IF e.t = "bad" THEN [isOk |-> FALSE, val |-> NumAst(0)]
  ELSE [isOk |-> TRUE, val |-> parseAst(e, cellId)]

\* ast.toText(CellRef.parseRef(baseCellId)): the absolute id a reference
\* node names when read at baseCellId.
toText(ast, baseCellId) == baseCellId + ast.value

\* ------------------------------------------------------------ map helpers
EmptyMap == [x \in {} |-> 0]
Put(f, k, v) == [x \in (DOMAIN f) \cup {k} |-> IF x = k THEN v ELSE f[x]]
Restrict(f, S) == [x \in S |-> f[x]]

\* ------------------------------------------------------------------- FNS
Min2(a, b) == IF a <= b THEN a ELSE b
Max2(a, b) == IF a >= b THEN a ELSE b

\* The operator table with '-' always read as a subtraction from its first
\* operand: a lone operand comes back unchanged.
FNS_MinusAlwaysBinary(fn, args) ==
  CASE fn = "+" -> args[1] + args[2]
    [] fn = "-" -> IF Len(args) < 2 THEN args[1] ELSE args[1] - args[2]
    [] fn = "*" -> args[1] * args[2]
    [] fn = "min" -> Min2(args[1], args[2])
    [] fn = "max" -> Max2(args[1], args[2])

\* The operator table. '/' (floating-point division) is left out: no
\* expression text of a call uses it, nor any operator outside the table.
FNS(fn, args) ==
  CASE fn = "+" -> args[1] + args[2]
    [] fn = "-" -> IF Len(args) < 2 THEN 0 - args[1] ELSE args[1] - args[2]
    [] fn = "*" -> args[1] * args[2]
    [] fn = "min" -> Min2(args[1], args[2])
    [] fn = "max" -> Max2(args[1], args[2])

\* ------------------------------------------------------------- variables
VARIABLES
  cells,        \* committed map: cell id -> Ast
  shadowCells,  \* staging map: cell id -> Ast
  shadowOrder,  \* key order of shadowCells (insertion order of its ids)
  call,         \* the last eval call: [cellId, expr]
  result,       \* what the last eval call returned: [status, val]
  faulted,      \* some eval call so far ended in a rethrown Error
  nCalls,       \* number of eval calls made
  hist,         \* SpecHistory only: the calls so far that were not rejected
  \* web service (ss-ws.ts)
  handled,      \* the PATCH requests handled so far, with what each one did
  envelope,     \* the ErrorEnvelope mapResultErrors returned last
  \* browser spreadsheet (prj4 spreadsheet.ts)
  focused,             \* the grid cell that has the keyboard focus, 0 if none
  currentFocusedCell,  \* Spreadsheet.currentFocusedCell, 0 for null
  errorOccurred,       \* Spreadsheet.errorOccurred
  errorsShown,         \* the Errors widget displays a message
  dom,                 \* per grid cell: textContent and data-* attributes
  pending,             \* blurCell invocations suspended at their await
  nBlurs               \* number of focusout events so far

engineVars ==
  <<cells, shadowCells, shadowOrder, call, result, faulted, nCalls, hist>>
wsVars == <<handled, envelope>>
gridVars ==
  <<focused, currentFocusedCell, errorOccurred, errorsShown, dom, pending,
    nBlurs>>

\* The state outside the engine.
otherVars == <<wsVars, gridVars>>

vars == <<engineVars, otherVars>>

\* The grid cells of the browser page ('.cell' elements), by index.
GridCells == 1..NumGridCells

\* An attribute that is not set: getAttribute returns null.
NoAttr == "null"

\* A '.cell' element as makeEmptySS creates it: no text, no data-*.
EmptyCell ==
  [textContent |-> "", expr |-> NoAttr, value |-> NoAttr,
   prevExpr |-> NoAttr, prevValue |-> NoAttr]

\* No ErrorEnvelope made yet.
NoEnvelope == [isOk |-> FALSE, status |-> 0, errors |-> <<>>]

\* The web service has handled no request yet.
WsInit == handled = <<>> /\ envelope = NoEnvelope

\* new Spreadsheet(ws, ssName) on an empty spreadsheet: nothing focused.
GridInit ==
  /\ focused = 0
  /\ currentFocusedCell = 0
  /\ errorOccurred = FALSE
  /\ errorsShown = FALSE
  /\ dom = [c \in GridCells |-> EmptyCell]
  /\ pending = {}
  /\ nBlurs = 0

OtherInit == WsInit /\ GridInit

\* ---------------------------------------------------------- dependencies
RECURSIVE isDependent(_, _, _)
\* Does ast, read at cellId, contain a reference to baseCellId?
isDependent(ast, cellId, baseCellId) ==
  IF ast.kind = "ref" THEN toText(ast, cellId) = baseCellId
  ELSE IF ast.kind = "app"
    THEN \E i \in 1..Len(ast.kids) : isDependent(ast.kids[i], cellId, baseCellId)
  ELSE FALSE

\* The ids of sh, in key order, whose formula references baseCellId.
findDependentCells(sh, ord, baseCellId) ==
  SelectSeq(ord, LAMBDA id : isDependent(sh[id], id, baseCellId))

\* findDependentCells2 without its filter: no cell is named for deletion
\* from the update map.
findDependentCells2_DeletesNothing(sh, baseCellId) == {}

\* The ids of sh other than baseCellId whose formula does NOT reference it.
findDependentCells2(sh, baseCellId) ==
  {id \in DOMAIN sh : id # baseCellId /\ ~isDependent(sh[id], id, baseCellId)}

\* ------------------------------------------------------ rollback / commit
\* recoverCell: staging takes the committed Ast of cellId, if there is one.
recoverCell(sh, cm, cellId) ==
  IF cellId \in DOMAIN cm THEN Put(sh, cellId, cm[cellId]) ELSE sh

\* coverCell with recoverCell's test: only a cell already committed is written.
coverCell_OnlyExisting(sh, cm, cellId) ==
  IF cellId \in DOMAIN cm /\ cellId \in DOMAIN sh
    THEN Put(cm, cellId, sh[cellId]) ELSE cm

\* coverCell: committed takes the staged Ast of cellId, if there is one.
coverCell(sh, cm, cellId) ==
  IF cellId \in DOMAIN sh THEN Put(cm, cellId, sh[cellId]) ELSE cm

\* ------------------------------------------------------------- evaluator
\* The evaluation state threaded through the recursion:
\*   upd   updatedCells, the per-call memo and candidate result
\*   sh    shadowCells (recoverCell writes it just before the cycle fault)
\*   st    "ok", or the fault that unwinds the recursion: "circ" a
\*         CircularReferenceError, "nocell" the 'does not exist' Error,
\*         "overflow" the RangeError of a recursion that never returns
\*   val   the value of the node or cell just evaluated
\*   trace the cell ids evaluateAndUpdate was invoked on, in order
\*   depth the deepest nesting of evaluateAndUpdate frames reached
EvalState(sh) ==
  [upd |-> EmptyMap, sh |-> sh, st |-> "ok", val |-> 0,
   trace |-> <<>>, depth |-> 0]

RECURSIVE evaluateAndUpdate(_, _, _, _, _)
RECURSIVE evaluateFormula(_, _, _, _, _, _)
RECURSIVE evaluateKids(_, _, _, _, _, _, _, _)
RECURSIVE evaluateDependents(_, _, _, _, _, _, _)

\* operands.map(operand => evaluateFormula(...)): left to right from kid i,
\* args the values so far; a fault stops the map.
evaluateKids(basecellId, kids, i, args, parentCellId, s, env, stack) ==
  IF i > Len(kids) THEN [s EXCEPT !.val = args]
  ELSE LET r == evaluateFormula(basecellId, kids[i], parentCellId, s, env, stack)
       IN IF r.st # "ok" THEN r
          ELSE evaluateKids(basecellId, kids, i + 1, Append(args, r.val),
                            parentCellId, r, env, stack)

evaluateFormula(basecellId, ast, parentCellId, s, env, stack) ==
  IF ast.kind = "num" THEN [s EXCEPT !.val = ast.value]
  ELSE IF ast.kind = "ref" THEN
    LET cellId == toText(ast, basecellId)
    IN IF cellId = parentCellId
         THEN [s EXCEPT !.sh = recoverCell(s.sh, env.cells, parentCellId),
                        !.st = "circ"]
       ELSE IF cellId \notin DOMAIN s.sh THEN [s EXCEPT !.val = 0]
       ELSE IF cellId \in DOMAIN s.upd THEN [s EXCEPT !.val = s.upd[cellId]]
       ELSE evaluateAndUpdate(cellId, parentCellId, s, env, stack)
  ELSE
    LET r == evaluateKids(basecellId, ast.kids, 1, <<>>, parentCellId, s, env, stack)
    IN IF r.st # "ok" THEN r
       ELSE [r EXCEPT !.val = FNS(ast.fn, r.val)]

\* The loop over the dependents of cellId, from position i on; parentCellId
\* is the loop's running parent, reassigned when a dependent is taken.
evaluateDependents(cellId, deps, i, parentCellId, s, env, stack) ==
  IF i > Len(deps) THEN s
  ELSE IF cellId = parentCellId /\ cellId # deps[i]
    THEN LET r == evaluateAndUpdate(deps[i], deps[i], s, env, stack)
         IN IF r.st # "ok" THEN r
            ELSE evaluateDependents(cellId, deps, i + 1, deps[i], r, env, stack)
  ELSE evaluateDependents(cellId, deps, i + 1, parentCellId, s, env, stack)

\* stack: the cell ids of the evaluateAndUpdate frames now active. A call
\* on a cell whose frame is still active repeats that frame's recursion
\* without end: the call stack is exhausted (RangeError).
evaluateAndUpdate(cellId, parentCellId, s0, env, stack) ==
  LET s == [s0 EXCEPT !.trace = Append(s0.trace, cellId),
                      !.depth = IF Cardinality(stack) + 1 > s0.depth
                                  THEN Cardinality(stack) + 1 ELSE s0.depth]
  IN IF cellId \notin DOMAIN s.sh THEN [s EXCEPT !.st = "nocell"]
     ELSE IF cellId \in stack THEN [s EXCEPT !.st = "overflow"]
     ELSE
       LET r == evaluateFormula(cellId, s.sh[cellId], parentCellId, s, env,
                                stack \cup {cellId})
       IN IF r.st # "ok" THEN r
          ELSE
            LET r2 == [r EXCEPT !.upd = Put(r.upd, cellId, r.val)]
                deps == findDependentCells(r2.sh, env.order, cellId)
                r3 == evaluateDependents(cellId, deps, 1, parentCellId, r2, env,
                                         stack \cup {cellId})
            IN IF r3.st # "ok" THEN r3 ELSE [r3 EXCEPT !.val = r.val]

\* ------------------------------------------------------------------ eval
\* What eval leaves behind and returns: the two maps, the key order of the
\* staging map, and the Result. status "ok" carries the update map;
\* "SYNTAX" and "CIRCULAR_REF" are the error Results; "FAULT" is an Error
\* other than CircularReferenceError, which eval rethrows.
Outcome(cm, sh, ord, status, val, r) ==
  [cells |-> cm, shadowCells |-> sh, shadowOrder |-> ord,
   status |-> status, val |-> val, trace |-> r.trace, depth |-> r.depth]

\* evalSyntaxError with the staging done before the parse result is checked.
evalSyntaxError_StagedFirst(cm, sh, ord, cellId, parsedExpression) ==
  Outcome(cm, Put(sh, cellId, parsedExpression.val),
          IF cellId \in DOMAIN sh THEN ord ELSE Append(ord, cellId),
          "SYNTAX", EmptyMap, EvalState(sh))

\* The parse failed: eval returns before it touches either map.
evalSyntaxError(cm, sh, ord, cellId, parsedExpression) ==
  Outcome(cm, sh, ord, "SYNTAX", EmptyMap, EvalState(sh))

\* eval without its staging step: shadowCells is left as it was.
stageCell_Skipped(sh, cellId, ast) == sh

\* this.shadowCells[cellId] = parsedExpression.val
stageCell(sh, cellId, ast) == Put(sh, cellId, ast)

\* A new key of shadowCells goes last in its key order.
stageOrder(sh, ord, cellId) ==
  IF cellId \in DOMAIN sh THEN ord ELSE Append(ord, cellId)

\* evalFinish with the commit done on the way out of a cycle fault too.
evalFinish_CommitOnFault(cm, ord, cellId, r) ==
  IF r.st = "circ"
    THEN Outcome(coverCell(r.sh, cm, cellId), r.sh, ord, "CIRCULAR_REF", EmptyMap, r)
  ELSE IF r.st # "ok" THEN Outcome(cm, r.sh, ord, "FAULT", EmptyMap, r)
  ELSE
    LET dependents == findDependentCells2(r.sh, cellId)
        updatedCells == Restrict(r.upd, (DOMAIN r.upd) \ dependents)
    IN Outcome(coverCell(r.sh, cm, cellId), r.sh, ord, "ok", updatedCells, r)

\* After evaluateAndUpdate returned or threw r: the catch, the filter of
\* the update map and the commit.
evalFinish(cm, ord, cellId, r) ==
  IF r.st = "circ" THEN Outcome(cm, r.sh, ord, "CIRCULAR_REF", EmptyMap, r)
  ELSE IF r.st # "ok" THEN Outcome(cm, r.sh, ord, "FAULT", EmptyMap, r)
  ELSE
    LET dependents == findDependentCells2(r.sh, cellId)
        updatedCells == Restrict(r.upd, (DOMAIN r.upd) \ dependents)
    IN Outcome(coverCell(r.sh, cm, cellId), r.sh, ord, "ok", updatedCells, r)

evalCall(cm, sh, ord, cellId, expr) ==
  LET parsedExpression == parse(expr, cellId)
  IN IF ~parsedExpression.isOk
       THEN evalSyntaxError(cm, sh, ord, cellId, parsedExpression)
     ELSE
       LET sh1 == stageCell(sh, cellId, parsedExpression.val)
           ord1 == stageOrder(sh, ord, cellId)
           env == [cells |-> cm, order |-> ord1]
           r == evaluateAndUpdate(cellId, cellId, EvalState(sh1), env, {})
       IN evalFinish(cm, ord1, cellId, r)

\* ------------------------------------------------------------ behaviours
\* No call pending: the caller holds no Result it has not yet received.
NoCall == [cellId |-> 0, expr |-> BadE]
NoResult == [status |-> "none", val |-> EmptyMap, trace |-> <<>>, depth |-> 0]

\* new Spreadsheet(name): both maps empty; no call made yet.
Init ==
  /\ cells = EmptyMap
  /\ shadowCells = EmptyMap
  /\ shadowOrder = <<>>
  /\ call = NoCall
  /\ result = NoResult
  /\ faulted = FALSE
  /\ nCalls = 0
  /\ hist = <<>>
  /\ OtherInit

\* One call eval(cellId, expr), from the parse to the returned Result. The
\* caller makes it once it has received the Result of the call before.
EvalStep(cellId, expr) ==
  /\ result.status = "none"
  /\ nCalls < MaxCalls
  /\ LET out == evalCall(cells, shadowCells, shadowOrder, cellId, expr)
     IN /\ cells' = out.cells
        /\ shadowCells' = out.shadowCells
        /\ shadowOrder' = out.shadowOrder
        /\ result' = [status |-> out.status, val |-> out.val,
                      trace |-> out.trace, depth |-> out.depth]
        /\ faulted' = (faulted \/ out.status = "FAULT")
  /\ call' = [cellId |-> cellId, expr |-> expr]
  /\ nCalls' = nCalls + 1

Eval(cellId, expr) ==
  /\ EvalStep(cellId, expr)
  /\ UNCHANGED <<hist, otherVars>>

\* The caller receives the Result (or the rethrown Error) of the call it
\* awaited; the spreadsheet keeps nothing of it.
Deliver ==
  /\ result.status # "none"
  /\ call' = NoCall
  /\ result' = NoResult
  /\ UNCHANGED <<cells, shadowCells, shadowOrder, faulted, nCalls>>
  /\ UNCHANGED <<hist, otherVars>>

Next ==
  \/ \E cellId \in Cells, expr \in Exprs : Eval(cellId, expr)
  \/ Deliver

Spec == Init /\ [][Next]_vars

\* The outcome of eval("a1", "a1+1") on a new spreadsheet.
RejectedFirstEdit ==
  evalCall(EmptyMap, EmptyMap, <<>>, 1, AppE("+", <<RefE(1), NumE(1)>>))

\* The spreadsheet once the caller has received that Result: the state a
\* first, rejected edit leaves behind. MaxCalls further calls follow.
InitAfterRejectedEdit ==
  /\ cells = RejectedFirstEdit.cells
  /\ shadowCells = RejectedFirstEdit.shadowCells
  /\ shadowOrder = RejectedFirstEdit.shadowOrder
  /\ call = NoCall
  /\ result = NoResult
  /\ faulted = (RejectedFirstEdit.status = "FAULT")
  /\ nCalls = 0
  /\ hist = <<>>
  /\ OtherInit

SpecAfterRejectedEdit == InitAfterRejectedEdit /\ [][Next]_vars

\* A call whose text is drawn from the whole operator table, made as the
\* last call of a run: on every store the calls before it can build.
EvalOp(cellId, expr) ==
  /\ nCalls = MaxCalls - 1
  /\ Eval(cellId, expr)

NextOps ==
  \/ \E cellId \in Cells, expr \in Exprs : Eval(cellId, expr)
  \/ \E cellId \in Cells, expr \in OpExprs : EvalOp(cellId, expr)
  \/ Deliver

SpecOps == Init /\ [][NextOps]_vars

\* The same call, with the caller keeping the list of its calls that were
\* not rejected (neither SYNTAX nor CIRCULAR_REF).
EvalLogged(cellId, expr) ==
  /\ EvalStep(cellId, expr)
  /\ hist' = IF result'.status \in {"SYNTAX", "CIRCULAR_REF"} THEN hist
             ELSE Append(hist, call')
  /\ UNCHANGED otherVars

NextHistory ==
  \/ \E cellId \in Cells, expr \in Exprs : EvalLogged(cellId, expr)
  \/ Deliver

SpecHistory == Init /\ [][NextHistory]_vars

\* The store of InitAfterRejectedEdit, which Spec reaches in two steps.
AfterRejectedEdit ==
  /\ cells = RejectedFirstEdit.cells
  /\ shadowCells = RejectedFirstEdit.shadowCells
  /\ shadowOrder = RejectedFirstEdit.shadowOrder
  /\ result = NoResult
  /\ ~faulted

\* ------------------------------------------------ web service (ss-ws.ts)
\* HTTP status codes by name (http-status).
STATUS ==
  [OK |-> 200, BAD_REQUEST |-> 400, UNAUTHORIZED |-> 401, NOT_FOUND |-> 404,
   CONFLICT |-> 409, INTERNAL_SERVER_ERROR |-> 500]

\* Domain error codes with an HTTP status of their own.
ERROR_MAP ==
  [EXISTS |-> STATUS.CONFLICT, NOT_FOUND |-> STATUS.NOT_FOUND,
   BAD_REQ |-> STATUS.BAD_REQUEST, AUTH |-> STATUS.UNAUTHORIZED,
   DB |-> STATUS.INTERNAL_SERVER_ERROR, INTERNAL |-> STATUS.INTERNAL_SERVER_ERROR]

\* An Err object with options.code = code.
Err(code) == [isErr |-> TRUE, code |-> code]

\* What a handler can hold as `err`: an ErrResult with its errors, or an
\* Error that was thrown.
ErrResult(errors) == [isError |-> FALSE, errors |-> errors]
ThrownError == [isError |-> TRUE, errors |-> <<>>]

RECURSIVE getHttpStatusFrom(_, _, _)
\* The loop of getHttpStatus from errors[i] on, `status` so far. A code
\* outside ERROR_MAP maps to undefined, which passes neither test.
getHttpStatusFrom(errors, i, status) ==
  IF i > Len(errors) THEN (IF status # 0 THEN status ELSE STATUS.BAD_REQUEST)
  ELSE LET err == errors[i]
           mapped == err.isErr /\ err.code \in DOMAIN ERROR_MAP
           first == IF mapped /\ status = 0 THEN ERROR_MAP[err.code] ELSE status
           next == IF mapped /\ ERROR_MAP[err.code] = STATUS.INTERNAL_SERVER_ERROR
                   THEN STATUS.INTERNAL_SERVER_ERROR ELSE first
       IN getHttpStatusFrom(errors, i + 1, next)

\* getHttpStatus without the rule for server errors: the status of the
\* first mapped error, whatever follows.
getHttpStatus_FirstMappedOnly(errors) ==
  LET at == {i \in 1..Len(errors) :
               errors[i].isErr /\ errors[i].code \in DOMAIN ERROR_MAP}
  IN IF at = {} THEN STATUS.BAD_REQUEST
     ELSE ERROR_MAP[errors[CHOOSE i \in at : \A j \in at : i <= j].code]

getHttpStatus(errors) == getHttpStatusFrom(errors, 1, 0)

\* mapResultErrors: the envelope's status (its errors are not modelled
\* further). A thrown Error becomes one Err with code UNKNOWN.
mapResultErrors(err) ==
  LET errors == IF err.isError THEN <<Err("UNKNOWN")>> ELSE err.errors
  IN [isOk |-> FALSE, status |-> getHttpStatus(errors), errors |-> errors]

\* What ssServices.evaluate and ssServices.copy can answer: an ok Result, an
\* error Result, or a thrown Error.
ServiceAnswers ==
  {[isOk |-> TRUE, err |-> ErrResult(<<>>)]}
  \cup {[isOk |-> FALSE, err |-> ErrResult(<<Err(code)>>)] :
          code \in {"SYNTAX", "NOT_FOUND", "DB"}}
  \cup {[isOk |-> FALSE, err |-> ThrownError]}

\* One request in the hands of its handler: the statuses passed to
\* res.json so far in order, the service calls made, and whether an Error
\* left the handler.
NewExchange == [sent |-> <<>>, evaluateCalls |-> 0, copyCalls |-> 0, escaped |-> FALSE]

\* res.status(status).json(body): the first call sends the response; a
\* later one throws an Error (the headers are already sent).
headersSent(x) == x.sent # <<>>
json(x, status) == [x EXCEPT !.sent = Append(@, status)]

\* An Error thrown inside the catch block leaves the handler.
escape(x) == [x EXCEPT !.escaped = TRUE]

\* The catch block of the handler, entered with err.
catchBlock(x, err) ==
  LET y == json(x, mapResultErrors(err).status)
  IN IF headersSent(x) THEN escape(y) ELSE y

\* The service call and the success response of either branch; `answer`
\* is what the service returns or throws.
serviceBranch(x, answer) ==
  IF ~answer.isOk THEN catchBlock(x, answer.err)
  ELSE IF headersSent(x) THEN catchBlock(json(x, STATUS.OK), ThrownError)
  ELSE json(x, STATUS.OK)

\* evaluateAndCopyCellHandler on a request with (expr) or without the query
\* parameter expr, likewise srcCellId: the two parameter checks, which send
\* BAD_REQ and do not return, then the evaluate or copy branch.
evaluateAndCopyCellHandler(expr, srcCellId, answer) ==
  LET badReq == mapResultErrors(ErrResult(<<Err("BAD_REQ")>>)).status
      checked == IF (~expr /\ ~srcCellId) \/ (expr /\ srcCellId)
                 THEN json(NewExchange, badReq)
                 ELSE NewExchange
  IN IF expr
       THEN serviceBranch([checked EXCEPT !.evaluateCalls = @ + 1], answer)
     ELSE IF srcCellId
       THEN serviceBranch([checked EXCEPT !.copyCalls = @ + 1], answer)
     ELSE checked

\* A PATCH request arrives and is handled to its end.
Patch(expr, srcCellId, answer) ==
  /\ Len(handled) < MaxRequests
  /\ handled' = Append(handled,
       [expr |-> expr, srcCellId |-> srcCellId,
        did |-> evaluateAndCopyCellHandler(expr, srcCellId, answer)])
  /\ UNCHANGED <<envelope, engineVars, gridVars>>

NextWs ==
  \E expr \in BOOLEAN, srcCellId \in BOOLEAN, answer \in ServiceAnswers :
    Patch(expr, srcCellId, answer)

SpecWs == Init /\ [][NextWs]_vars

\* The codes an Err can carry: those of ERROR_MAP, the engine's SYNTAX and
\* CIRCULAR_REF, and "" for an Err without options.code.
ErrCodes == (DOMAIN ERROR_MAP) \cup {"SYNTAX", "CIRCULAR_REF", ""}

\* What mapResultErrors can be given: a thrown Error, or an ErrResult with
\* one to MaxErrors errors, all of them Err objects.
ErrInputs ==
  {ThrownError}
  \cup {ErrResult(errors) :
          errors \in UNION {[1..n -> {Err(code) : code \in ErrCodes}] :
                              n \in 1..MaxErrors}}

\* A handler maps what it caught into the ErrorEnvelope of its response.
MapErrors(err) ==
  /\ envelope = NoEnvelope
  /\ envelope' = mapResultErrors(err)
  /\ UNCHANGED <<handled, engineVars, gridVars>>

NextStatus == \E err \in ErrInputs : MapErrors(err)

SpecStatus == Init /\ [][NextStatus]_vars

\* ------------------------------- browser spreadsheet (prj4 spreadsheet.ts)
\* Only the focus and blur listeners and what they call are modelled; the
\* copy, paste and clear listeners are never triggered.

\* The cell values the web service reports, and value.toString(). One value
\* is enough to tell a cell that was updated, restored or left alone from one
\* that was not: an unset data-value is null, a cleared one is ''.
Values == {1}
toString(v) == IF v = 1 THEN "1" ELSE "2"

\* What the user leaves in a cell being edited: nothing, a blank, a formula.
TypedTexts == {"", " ", "f"}

\* text.trim()
trim(text) == IF text = " " THEN "" ELSE text

\* a || b on attribute values and strings: null and '' are falsy.
Or(a, b) == IF a \in {NoAttr, ""} THEN b ELSE a

\* updateCells with the focus test left out: every reported cell is
\* overwritten.
updateCells_IgnoresFocus(d, updates, focusedCell) ==
  [c \in GridCells |->
     IF c \in DOMAIN updates
       THEN [d[c] EXCEPT !.value = toString(updates[c]),
                         !.textContent = toString(updates[c])]
     ELSE d[c]]

\* updateCells(updates) on the cells d, with this.currentFocusedCell =
\* focusedCell: every reported cell other than that one shows its new value.
updateCells(d, updates, focusedCell) ==
  [c \in GridCells |->
     IF c \in DOMAIN updates /\ focusedCell # c
       THEN [d[c] EXCEPT !.value = toString(updates[c]),
                         !.textContent = toString(updates[c])]
     ELSE d[c]]

\* resetCellContent that leaves data-expr as the blur set it.
resetCellContent_KeepsExpr(d, c) ==
  LET prevExpr == d[c].prevExpr
      prevValue == d[c].prevValue
  IN [d EXCEPT ![c] = [@ EXCEPT !.textContent = Or(prevValue, Or(prevExpr, "")),
                                !.value = Or(prevValue, "")]]

\* resetCellContent(cell)
resetCellContent(d, c) ==
  LET prevExpr == d[c].prevExpr
      prevValue == d[c].prevValue
  IN [d EXCEPT ![c] = [@ EXCEPT !.textContent = Or(prevValue, Or(prevExpr, "")),
                                !.expr = Or(prevExpr, ""),
                                !.value = Or(prevValue, "")]]

\* focusin on cell c: focusCell.
FocusIn(c) ==
  /\ focused = 0
  /\ focused' = c
  /\ currentFocusedCell' = c
  /\ dom' = [dom EXCEPT ![c].textContent = Or(dom[c].expr, Or(dom[c].value, ""))]
  /\ errorsShown' = FALSE
  /\ UNCHANGED <<errorOccurred, pending, nBlurs>>
  /\ UNCHANGED <<engineVars, wsVars>>

\* The user edits the focused cell.
Type(text) ==
  /\ focused \in GridCells
  /\ dom' = [dom EXCEPT ![focused].textContent = text]
  /\ UNCHANGED <<focused, currentFocusedCell, errorOccurred, errorsShown,
                 pending, nBlurs>>
  /\ UNCHANGED <<engineVars, wsVars>>

\* focusout on cell c: blurCell up to its await. The request is sent and
\* the invocation is suspended with its locals.
FocusOut(c) ==
  /\ focused = c
  /\ nBlurs < MaxBlurs
  /\ focused' = 0
  /\ LET content == trim(dom[c].textContent)
     IN /\ pending' = pending \cup
             {[id |-> nBlurs + 1, cellId |-> c, content |-> content,
               remove |-> (content = ""),
               prevExpr |-> dom[c].expr, prevValue |-> dom[c].value]}
        /\ dom' = [dom EXCEPT ![c].expr = content]
  /\ nBlurs' = nBlurs + 1
  /\ UNCHANGED <<currentFocusedCell, errorOccurred, errorsShown>>
  /\ UNCHANGED <<engineVars, wsVars>>

\* What ws.evaluate and ws.remove can answer: an error, or updates.
FailedAnswer == [isOk |-> FALSE, val |-> EmptyMap]
AllAnswers ==
  {FailedAnswer}
  \cup {[isOk |-> TRUE, val |-> u] :
          u \in UNION {[S -> Values] : S \in SUBSET GridCells}}

\* The answers to the request of p: the updates of an evaluate include the
\* cell itself, those of a remove do not.
Answers(p) ==
  {a \in AllAnswers : a.isOk => ((p.cellId \in DOMAIN a.val) = ~p.remove)}

\* The cells once blurCell has dealt with its own cell on an ok answer,
\* before it calls updateCells.
ownCellDone(d, p) ==
  IF p.remove
    THEN [d EXCEPT ![p.cellId] = [@ EXCEPT !.textContent = "",
                                           !.expr = NoAttr, !.value = NoAttr]]
  ELSE [d EXCEPT ![p.cellId].textContent = Or(d[p.cellId].value, "")]

\* The cells once blurCell has dealt with an error answer.
errorNoted(d, p) ==
  [d EXCEPT ![p.cellId] = [@ EXCEPT !.prevExpr = Or(p.prevExpr, ""),
                                    !.prevValue = Or(p.prevValue, "")]]

\* blurCell from its await to its end, for the suspended invocation p and
\* the answer to its request.
blurCellResumed(p, answer) ==
  /\ p \in pending
  /\ answer \in Answers(p)
  /\ pending' = pending \ {p}
  /\ LET failed == errorOccurred \/ ~answer.isOk
         d == IF answer.isOk
                THEN updateCells(ownCellDone(dom, p), answer.val,
                                 currentFocusedCell)
              ELSE errorNoted(dom, p)
     IN /\ dom' = IF failed THEN resetCellContent(d, p.cellId) ELSE d
        /\ errorsShown' = (errorsShown \/ ~answer.isOk)
        /\ errorOccurred' = IF failed THEN FALSE ELSE errorOccurred
  /\ currentFocusedCell' = 0
  /\ UNCHANGED <<focused, nBlurs>>
  /\ UNCHANGED <<engineVars, wsVars>>

\* The answer to the request of the id-th focusout arrives.
BlurDone(id, answer) ==
  \E p \in pending : p.id = id /\ blurCellResumed(p, answer)

NextGrid ==
  \/ \E c \in GridCells : FocusIn(c)
  \/ \E text \in TypedTexts : Type(text)
  \/ \E c \in GridCells : FocusOut(c)
  \/ \E id \in 1..MaxBlurs, answer \in AllAnswers : BlurDone(id, answer)

SpecGrid == Init /\ [][NextGrid]_vars

\* Type and shape of the state.
TypeOK ==
  /\ DOMAIN cells \subseteq Cells
  /\ DOMAIN shadowCells \subseteq Cells
  /\ {shadowOrder[i] : i \in 1..Len(shadowOrder)} = DOMAIN shadowCells
  /\ Len(shadowOrder) = Cardinality(DOMAIN shadowCells)
  /\ result.status \in {"none", "ok", "SYNTAX", "CIRCULAR_REF", "FAULT"}
  /\ faulted \in BOOLEAN
  /\ nCalls \in 0..MaxCalls

\* ------------------------------------------------- reference definitions
\* The vocabulary of the properties below: the reference graph of a map of
\* formulas and the value of a cell in it, empty cells reading as 0.
RECURSIVE RefsOf(_, _)
\* The cells that ast, stored at cellId, refers to.
RefsOf(ast, cellId) ==
  IF ast.kind = "ref" THEN {toText(ast, cellId)}
  ELSE IF ast.kind = "app"
    THEN UNION {RefsOf(ast.kids[i], cellId) : i \in 1..Len(ast.kids)}
  ELSE {}

RECURSIVE RefClosure(_, _)
\* S and every cell reachable from S along references of store.
RefClosure(store, S) ==
  LET T == S \cup UNION {RefsOf(store[d], d) : d \in S \cap DOMAIN store}
  IN IF T = S THEN S ELSE RefClosure(store, T)

\* d's formula reaches c through one or more references.
Reaches(store, d, c) ==
  d \in DOMAIN store /\ c \in RefClosure(store, RefsOf(store[d], d))

DirectDependents(store, c) ==
  {d \in DOMAIN store \ {c} : c \in RefsOf(store[d], d)}

TransitiveDependents(store, c) ==
  {d \in DOMAIN store \ {c} : Reaches(store, d, c)}

RECURSIVE AstValue(_, _, _, _)
\* The value of ast at cellId over store; fuel bounds the reference depth
\* (a store without cycles never uses more than NumCells).
AstValue(store, ast, cellId, fuel) ==
  IF ast.kind = "num" THEN ast.value
  ELSE IF ast.kind = "ref" THEN
    LET t == toText(ast, cellId)
    IN IF t \notin DOMAIN store \/ fuel = 0 THEN 0
       ELSE AstValue(store, store[t], t, fuel - 1)
  ELSE FNS(ast.fn, [i \in 1..Len(ast.kids) |->
                      AstValue(store, ast.kids[i], cellId, fuel)])

\* What query(c) reports: c's formula evaluated over store.
CellValue(store, c) ==
  IF c \notin DOMAIN store THEN 0 ELSE AstValue(store, store[c], c, NumCells)

\* The formulas of d in store m before and in m2 after are the same.
SameEntry(m, m2, d) ==
  /\ (d \in DOMAIN m) = (d \in DOMAIN m2)
  /\ d \in DOMAIN m => m[d] = m2[d]

\* The Ast the last call staged for its cell.
CallAst == parse(call.expr, call.cellId).val

\* ---------------------------------------------------------------- claims

\* C1: an eval call that returns an error Result (SYNTAX or CIRCULAR_REF)
\* leaves the committed map exactly as it was before the call.
C1_FailedEditCommitsNothing ==
  [][result'.status \in {"SYNTAX", "CIRCULAR_REF"} => cells' = cells]_vars

\* C1 witness: an edit was rejected as circular on a cell holding a
\* committed formula different from the rejected one.
C1_Witness ==
  /\ result.status = "CIRCULAR_REF"
  /\ call.cellId \in DOMAIN cells
  /\ cells[call.cellId] # CallAst

\* C2: after any sequence of eval calls each ending in ok, SYNTAX or
\* CIRCULAR_REF, the staging map equals the committed map.
C2_StagingEqualsCommitted ==
  ~faulted => shadowCells = cells

\* C3: when eval returns CIRCULAR_REF the staging entry of the edited cell
\* is what it was before the edit: the committed Ast if the cell had one,
\* absent if it had none.
C3_RollbackRestoresEditedCell ==
  [][result'.status = "CIRCULAR_REF" =>
       LET c == call'.cellId
       IN IF c \in DOMAIN cells
            THEN c \in DOMAIN shadowCells' /\ shadowCells'[c] = cells[c]
            ELSE c \notin DOMAIN shadowCells']_vars

\* C4: when the new formula of c refers to c or reaches c through a chain
\* of references over the stored cells, eval returns CIRCULAR_REF and the
\* new formula is not committed.
C4_CycleIsRejected ==
  [][(LET c == call'.cellId
          p == parse(call'.expr, c)
      IN p.isOk /\ Reaches(Put(cells, c, p.val), c, c))
       => result'.status = "CIRCULAR_REF" /\ cells' = cells]_vars

\* C5: the update map of a successful eval(c, expr) has exactly the keys
\* {c} and the direct and transitive dependents of c, each with its newly
\* computed value. Stated for the calls that end with staging equal to
\* committed, so that no leftover of an earlier rejected edit is involved.
C5_UpdateSetIsTransitiveDependents ==
  (result.status = "ok" /\ shadowCells = cells) =>
    /\ DOMAIN result.val = {call.cellId} \cup TransitiveDependents(cells, call.cellId)
    /\ \A d \in DOMAIN result.val : result.val[d] = CellValue(cells, d)

\* C6: every cell whose stored formula refers directly to the edited cell c
\* is evaluated by a successful eval(c, expr) and is in the returned map
\* with its value recomputed against c's new value. Stated for the calls
\* that end with staging equal to committed, as C5 is.
C6_DirectDependentsRecomputed ==
  (result.status = "ok" /\ shadowCells = cells) =>
    \A d \in DirectDependents(cells, call.cellId) :
      /\ \E i \in 1..Len(result.trace) : result.trace[i] = d
      /\ d \in DOMAIN result.val
      /\ result.val[d] = CellValue(cells, d)

\* C7: after a successful eval(c, expr) the value returned for c is the
\* value of c's committed formula over the committed map, empty cells
\* reading as 0.
C7_ReturnedValueIsQueryValue ==
  result.status = "ok" =>
    /\ call.cellId \in DOMAIN result.val
    /\ result.val[call.cellId] = CellValue(cells, call.cellId)

\* C8: a successful eval(c, expr) ends with cells[c] the Ast parsed from
\* expr, and the committed map is written only by a call whose evaluation
\* and propagation completed without a fault.
C8_CommitOnlyAfterEvaluation ==
  [][/\ result'.status = "ok" =>
          /\ call'.cellId \in DOMAIN cells'
          /\ cells'[call'.cellId] = parse(call'.expr, call'.cellId).val
     /\ cells' # cells => result'.status = "ok"]_vars

\* C8 witness: a successful edit that replaced a committed formula and
\* propagated to another cell.
C8_Witness ==
  /\ result.status = "ok"
  /\ Len(result.trace) >= 2
  /\ cells[call.cellId] = CallAst
  /\ nCalls >= 2

\* C9: when expr does not parse, eval returns SYNTAX and neither the
\* staging map nor the committed map is changed.
C9_SyntaxErrorChangesNothing ==
  [][((call'.cellId \in Cells /\ ~parse(call'.expr, call'.cellId).isOk)
         \/ result'.status = "SYNTAX") =>
       /\ result'.status = "SYNTAX"
       /\ shadowCells' = shadowCells
       /\ shadowOrder' = shadowOrder
       /\ cells' = cells]_vars

\* C9 witness: a SYNTAX result for a cell while other formulas are stored.
C9_Witness ==
  /\ result.status = "SYNTAX"
  /\ ~parse(call.expr, call.cellId).isOk
  /\ DOMAIN cells # {}

\* C10: eval(c, expr) changes the stored formula of no cell other than c,
\* in either map, on success and on CIRCULAR_REF alike.
C10_OtherCellsUntouched ==
  [][result'.status \in {"ok", "CIRCULAR_REF"} =>
       \A d \in Cells \ {call'.cellId} :
         SameEntry(cells, cells', d) /\ SameEntry(shadowCells, shadowCells', d)]_vars

\* The outcome of making the last call once more, right after it.
LastCallAgain ==
  evalCall(cells, shadowCells, shadowOrder, call.cellId, call.expr)

\* The trace of the last call names no cell twice.
TraceHasNoRepeat ==
  \A i, j \in 1..Len(result.trace) :
    result.trace[i] = result.trace[j] => i = j

\* C11: every eval call that stages an Ast ends committed (ok) or rolled
\* back (CIRCULAR_REF), and the nesting of evaluateAndUpdate never exceeds
\* the number of distinct cells.
C11_EvalEndsCommittedOrRolledBack ==
  result.status \notin {"none", "SYNTAX"} =>
    /\ result.status \in {"ok", "CIRCULAR_REF"}
    /\ result.depth <= Cardinality(DOMAIN shadowCells)

\* C12: eval(c, expr) made twice in a row gives the same outcome both
\* times: the same update map, or the same error.
C12_RepeatedEvalSameOutcome ==
  result.status # "none" =>
    /\ LastCallAgain.status = result.status
    /\ LastCallAgain.val = result.val

\* C13: within one eval call evaluateAndUpdate is invoked at most once per
\* cell id.
C13_EachCellEvaluatedOnce ==
  result.status # "none" => TraceHasNoRepeat

\* C14: a cell that a successful eval evaluated and that does not depend on
\* the edited cell, directly or transitively, over the formulas the call
\* read (the staging map), is not in the returned update map.
C14_NonDependentsFilteredOut ==
  result.status = "ok" =>
    \A i \in 1..Len(result.trace) :
      LET x == result.trace[i]
      IN (x # call.cellId /\ ~Reaches(shadowCells, x, call.cellId))
           => x \notin DOMAIN result.val

\* C14 witness: a successful edit evaluated a cell it referenced and left
\* it out of the returned map.
C14_Witness ==
  /\ result.status = "ok"
  /\ \E i \in 1..Len(result.trace) :
       /\ result.trace[i] # call.cellId
       /\ ~Reaches(shadowCells, result.trace[i], call.cellId)
       /\ result.trace[i] \notin DOMAIN result.val

\* C16: eval returns CIRCULAR_REF only if c reaches itself through
\* references in the committed map with c's formula replaced by the new one.
C16_CircularOnlyOnRealCycle ==
  [][result'.status = "CIRCULAR_REF" =>
       LET c == call'.cellId
       IN Reaches(Put(cells, c, parse(call'.expr, c).val), c, c)]_vars

\* The operator semantics as the specification words them.
SpecApply(fn, a) ==
  IF fn = "+" THEN a[1] + a[2]
  ELSE IF fn = "*" THEN a[1] * a[2]
  ELSE IF fn = "-" THEN (IF Len(a) = 1 THEN -a[1] ELSE a[1] - a[2])
  ELSE IF fn = "min" THEN CHOOSE m \in {a[1], a[2]} : m <= a[1] /\ m <= a[2]
  ELSE CHOOSE m \in {a[1], a[2]} : m >= a[1] /\ m >= a[2]

RECURSIVE SpecValue(_, _, _, _)
\* The reference semantics of ast at cellId over store: a number is itself,
\* a reference to a cell without entry is 0, a reference to a stored cell is
\* that cell's formula value, an application applies its operator to the
\* operand values in order.
SpecValue(store, ast, cellId, fuel) ==
  IF ast.kind = "num" THEN ast.value
  ELSE IF ast.kind = "ref" THEN
    LET t == toText(ast, cellId)
    IN IF t \notin DOMAIN store \/ fuel = 0 THEN 0
       ELSE SpecValue(store, store[t], t, fuel - 1)
  ELSE SpecApply(ast.fn, [i \in 1..Len(ast.kids) |->
                            SpecValue(store, ast.kids[i], cellId, fuel)])

\* C15: every value a successful eval returns is the reference semantics of
\* that cell's formula over the staging map: numbers, references (0 for a
\* cell without entry), unary and binary '-', '+', '*', min and max.
C15_EvaluatorComputesReferenceSemantics ==
  result.status = "ok" =>
    \A x \in DOMAIN result.val :
      /\ x \in DOMAIN shadowCells
      /\ result.val[x] = SpecValue(shadowCells, shadowCells[x], x, NumCells)

\* C15 witness: a successful call evaluated a one-operand "-" to a negative
\* value.
C15_Witness ==
  /\ result.status = "ok"
  /\ call.expr.fn = "-"
  /\ Len(call.expr.kids) = 1
  /\ result.val[call.cellId] < 0

RECURSIVE Replay(_, _)
\* The outcome of the last of the first n calls of hist, made in order on a
\* new spreadsheet.
Replay(calls, n) ==
  IF n = 0 THEN Outcome(EmptyMap, EmptyMap, <<>>, "none", EmptyMap, EvalState(EmptyMap))
  ELSE LET before == Replay(calls, n - 1)
       IN evalCall(before.cells, before.shadowCells, before.shadowOrder,
                   calls[n].cellId, calls[n].expr)

\* C17: a rejected edit has no effect on later results: the outcome of a call
\* that is not rejected is its outcome in a second run of the same calls
\* with the rejected ones left out.
C17_RejectedEditsLeaveNoTrace ==
  result.status \in {"ok", "FAULT"} =>
    LET second == Replay(hist, Len(hist))
    IN second.status = result.status /\ second.val = result.val

\* C18: a PATCH request with both expr and srcCellId, or with neither, gets
\* the BAD_REQ response and calls neither evaluate nor copy; and every
\* request gets exactly one response.
C18_OneResponseNoCallOnBadRequest ==
  \A i \in 1..Len(handled) :
    LET h == handled[i]
    IN /\ Len(h.did.sent) = 1
       /\ (h.expr = h.srcCellId) =>
            /\ h.did.sent[1] = STATUS.BAD_REQUEST
            /\ h.did.evaluateCalls = 0
            /\ h.did.copyCalls = 0

\* C19: when the ok answer to the evaluate of a blurred cell arrives and
\* the cell does not have the focus, the cell's data-value and text become
\* the value the updates report for it.
C19_BlurredCellShowsReportedValue ==
  [][\A p \in pending, answer \in AllAnswers :
       (/\ blurCellResumed(p, answer)
        /\ answer.isOk
        /\ ~p.remove
        /\ focused # p.cellId)
       => /\ dom'[p.cellId].value = toString(answer.val[p.cellId])
          /\ dom'[p.cellId].textContent = toString(answer.val[p.cellId])]_vars

\* C20: while a cell has the focus, updateCells leaves that cell's text and
\* data-value as they are, whatever answers arrive in whatever order.
C20_FocusedCellNotOverwritten ==
  [][\A p \in pending, answer \in AllAnswers :
       (blurCellResumed(p, answer) /\ answer.isOk /\ focused \in GridCells)
       => LET before == ownCellDone(dom, p)
              after == updateCells(before, answer.val, currentFocusedCell)
          IN /\ after[focused].textContent = before[focused].textContent
             /\ after[focused].value = before[focused].value]_vars

\* C21 as stated: when the request of a blur fails, the cell's data-expr,
\* data-value and text are again what they were when the blur happened (the
\* text up to surrounding blanks), and errorOccurred is false.
C21_FailedBlurRestoresPreBlurState ==
  [][\A p \in pending \ pending' :
       blurCellResumed(p, FailedAnswer)
       => /\ dom'[p.cellId].expr = p.prevExpr
          /\ dom'[p.cellId].value = p.prevValue
          /\ dom'[p.cellId].textContent = p.content
          /\ errorOccurred' = FALSE]_vars

\* C21 amended: when the request of a blur fails, data-expr and data-value
\* are the ones of before the blur with an unset attribute now set to '',
\* the text is the previous data-value, or else the previous data-expr, or
\* else empty (what the user typed is discarded), and errorOccurred is false.
C21_FailedBlurRestoresPreviousValue ==
  [][\A p \in pending \ pending' :
       blurCellResumed(p, FailedAnswer)
       => /\ dom'[p.cellId].expr = (IF p.prevExpr = NoAttr THEN "" ELSE p.prevExpr)
          /\ dom'[p.cellId].value = (IF p.prevValue = NoAttr THEN "" ELSE p.prevValue)
          /\ dom'[p.cellId].textContent =
               (IF p.prevValue \notin {NoAttr, ""} THEN p.prevValue
                ELSE IF p.prevExpr \notin {NoAttr, ""} THEN p.prevExpr
                ELSE "")
          /\ errorOccurred' = FALSE]_vars

\* C21 witness: a failed request has put the value of a cell that had one
\* back as its data-value and its text.
C21_Witness ==
  /\ errorsShown
  /\ \E c \in GridCells :
       /\ dom[c].prevValue \notin {NoAttr, ""}
       /\ dom[c].value = dom[c].prevValue
       /\ dom[c].textContent = dom[c].prevValue
       /\ dom[c].expr = dom[c].prevExpr

\* The positions of errors whose code has a status in ERROR_MAP.
MappedAt(errors) ==
  {i \in 1..Len(errors) : errors[i].code \in DOMAIN ERROR_MAP}

\* C22: the status of an envelope is INTERNAL_SERVER_ERROR if any of its
\* errors maps to it; otherwise the status of the first error whose code is
\* in ERROR_MAP; BAD_REQUEST if there is none (SYNTAX, CIRCULAR_REF).
C22_StatusOfFirstMappedError ==
  envelope # NoEnvelope =>
    LET es == envelope.errors
        at == MappedAt(es)
    IN envelope.status =
         IF \E i \in at : ERROR_MAP[es[i].code] = STATUS.INTERNAL_SERVER_ERROR
           THEN STATUS.INTERNAL_SERVER_ERROR
         ELSE IF at = {} THEN STATUS.BAD_REQUEST
         ELSE ERROR_MAP[es[CHOOSE i \in at : \A j \in at : i <= j].code]

\* C22 witness: an envelope whose first mapped error is not a server error
\* and a later one is; its status is INTERNAL_SERVER_ERROR.
C22_Witness ==
  /\ Len(envelope.errors) >= 2
  /\ envelope.errors[1].code = "NOT_FOUND"
  /\ \E i \in 2..Len(envelope.errors) : envelope.errors[i].code = "DB"
  /\ envelope.status = STATUS.INTERNAL_SERVER_ERROR

\* C23: no eval call raises the 'does not exist' fault: every cell id
\* evaluateAndUpdate was invoked on during the call has a staging entry.
C23_EvaluatedCellsAreStaged ==
  result.status # "none" =>
    \A i \in 1..Len(result.trace) : result.trace[i] \in DOMAIN shadowCells

\* C23 witness: a successful call whose formula references a cell without
\* staging entry, read as 0 without evaluateAndUpdate being invoked on it.
C23_Witness ==
  /\ result.status = "ok"
  /\ Len(result.trace) >= 1
  /\ RefsOf(CallAst, call.cellId) \ DOMAIN shadowCells # {}

====
